---------------------------- MODULE Spec2Model ----------------------------
(***************************************************************************)
(* Google Calendar provider adapter: the pure conversion functions between *)
(* the provider's wire shapes and the provider-agnostic domain model.      *)
(*                                                                         *)
(* Representation.  JavaScript strings are TLA+ strings.  An optional      *)
(* value (a property that may be undefined) is a sequence of length 0 or   *)
(* 1: <<>> is undefined, <<v>> is the value v.  Arrays are sequences.      *)
(* Objects are records carrying every property the code reads or writes,   *)
(* optional properties as optional values.                                 *)
(***************************************************************************)
EXTENDS Integers, Sequences, FiniteSets, TLC

VARIABLES op, input, output, sent

vars == <<op, input, output, sent>>

---------------------------------------------------------------------------
(* Optional values and JavaScript string primitives                        *)

None == <<>>

Some(v) == <<v>>

IsSome(o) == o # <<>>

\* JavaScript truthiness of an optional string: defined and not "".
Truthy(o) == o # <<>> /\ o[1] # ""

\* a || b on optional strings
OrElse(a, b) == IF Truthy(a) THEN a ELSE b

\* a ?? b on optional strings
Coalesce(a, b) == IF IsSome(a) THEN a ELSE b

CharAt(s, i) == SubSeq(s, i, i)

StartsWithAt(s, p, i) ==
  /\ i + Len(p) - 1 <= Len(s)
  /\ SubSeq(s, i, i + Len(p) - 1) = p

StartsWith(s, p) == StartsWithAt(s, p, 1)

Includes(s, p) == \E i \in 1..(Len(s) + 1) : StartsWithAt(s, p, i)

UpperLetters == "ABCDEFGHIJKLMNOPQRSTUVWXYZ"

LowerLetters == "abcdefghijklmnopqrstuvwxyz"

UpperSet == { CharAt(UpperLetters, k) : k \in 1..Len(UpperLetters) }

LowerOf ==
  [c \in UpperSet |->
     CharAt(LowerLetters, CHOOSE k \in 1..Len(UpperLetters) : CharAt(UpperLetters, k) = c)]

LowerChar(c) == IF c \in UpperSet THEN LowerOf[c] ELSE c

RECURSIVE ToLowerCase(_)
ToLowerCase(s) ==
  IF s = "" THEN ""
  ELSE LowerChar(CharAt(s, 1)) \o ToLowerCase(SubSeq(s, 2, Len(s)))

StartsWithIgnoringCaseAt(s, p, i) ==
  /\ i + Len(p) - 1 <= Len(s)
  /\ ToLowerCase(SubSeq(s, i, i + Len(p) - 1)) = p

\* Index of the first character of s at or after i that is in the string
\* stops, or Len(s) + 1 when there is none.
RECURSIVE IndexOfAny(_, _, _)
IndexOfAny(s, stops, i) ==
  IF i > Len(s) THEN Len(s) + 1
  ELSE IF Includes(stops, CharAt(s, i)) THEN i
  ELSE IndexOfAny(s, stops, i + 1)

---------------------------------------------------------------------------
(* toJoinUrl: new URL(joinUrl), then hostname + pathname; the input        *)
(* verbatim when the URL constructor throws.  The URL constructor is       *)
(* modelled for absolute URLs without userinfo or port: "scheme:" is a run *)
(* of letters ended by ":", http and https take "//" and a non-empty host  *)
(* (lower-cased) and have pathname "/" when the path is empty, any other   *)
(* scheme has an empty hostname and the rest, up to "?" or "#", as path.   *)

SchemeChars == LowerLetters \o UpperLetters

SchemeEnd(s) == IndexOfAny(s, ":/?#", 1)

SchemeEndsAt(s, c) ==
  /\ c > 1
  /\ c <= Len(s)
  /\ CharAt(s, c) = ":"
  /\ \A k \in 1..(c - 1) : Includes(SchemeChars, CharAt(s, k))

HasScheme(s) == SchemeEndsAt(s, SchemeEnd(s))

\* hostname + pathname of an http(s) URL whose text after the scheme and the
\* slashes is authority, with the host ending at hEnd and the path at pEnd.
HostAndPath(joinUrl, authority, hEnd, pEnd) ==
  IF hEnd = 1 THEN joinUrl
  ELSE ToLowerCase(SubSeq(authority, 1, hEnd - 1))
         \o (IF pEnd = hEnd THEN "/" ELSE SubSeq(authority, hEnd, pEnd - 1))

HostAndPathFrom(joinUrl, authority, hEnd) ==
  HostAndPath(joinUrl, authority, hEnd, IndexOfAny(authority, "?#", hEnd))

HostAndPathOf(joinUrl, authority) ==
  HostAndPathFrom(joinUrl, authority, IndexOfAny(authority, "/?#", 1))

SkipSlashes(rest) ==
  IF StartsWith(rest, "//") THEN SubSeq(rest, 3, Len(rest)) ELSE rest

JoinUrlOf(joinUrl, scheme, rest) ==
  IF scheme \in {"http", "https"}
  THEN HostAndPathOf(joinUrl, SkipSlashes(rest))
  ELSE SubSeq(rest, 1, IndexOfAny(rest, "?#", 1) - 1)

JoinUrlAt(joinUrl, c) ==
  JoinUrlOf(joinUrl, ToLowerCase(SubSeq(joinUrl, 1, c - 1)),
            SubSeq(joinUrl, c + 1, Len(joinUrl)))

toJoinUrl(joinUrl) ==
  IF ~HasScheme(joinUrl) THEN joinUrl ELSE JoinUrlAt(joinUrl, SchemeEnd(joinUrl))

---------------------------------------------------------------------------
(* toGoogleCalendarConferenceData                                          *)

\* A provider entry point with every property the adapter reads or writes.
EntryPoint(type, uri, label, meetingCode, accessCode, password, passcode, pin) ==
  [entryPointType |-> type, uri |-> uri, label |-> label,
   meetingCode |-> meetingCode, accessCode |-> accessCode,
   password |-> password, passcode |-> passcode, pin |-> pin]

\* ...(code && { a: code, b: code }): both properties or neither.
Spread(code) == IF Truthy(code) THEN code ELSE None

\* Mutant: the legacy accessCode and passcode are not emitted.
ToVideoEntryPoint_CurrentOnly(video) ==
  EntryPoint("video", video.joinUrl.value,
             OrElse(video.joinUrl.label, Some(toJoinUrl(video.joinUrl.value[1]))),
             Spread(video.meetingCode), None,
             Spread(video.password), None, None)

ToVideoEntryPoint(video) ==
  EntryPoint("video", video.joinUrl.value,
             OrElse(video.joinUrl.label, Some(toJoinUrl(video.joinUrl.value[1]))),
             Spread(video.meetingCode), Spread(video.meetingCode),
             Spread(video.password), Spread(video.password), None)

ToSipEntryPoint(sip) ==
  EntryPoint("sip", sip.joinUrl.value, sip.joinUrl.label,
             Spread(sip.meetingCode), Spread(sip.meetingCode),
             Spread(sip.password), Spread(sip.password), None)

\* Mutant: the prefix is added without looking at the value.
ToPhoneUri_AlwaysPrefixed(value) == "tel:" \o value

ToPhoneUri(value) == IF StartsWith(value, "tel:") THEN value ELSE "tel:" \o value

ToPhoneEntryPoint(phoneEntry) ==
  EntryPoint("phone", Some(ToPhoneUri(phoneEntry.joinUrl.value[1])),
             OrElse(phoneEntry.joinUrl.label, phoneEntry.joinUrl.value),
             None, Spread(phoneEntry.accessCode),
             None, None, Spread(phoneEntry.accessCode))

\* conference.video?.joinUrl?.value (and the same for sip)
HasJoinUrl(entry) == IsSome(entry) /\ Truthy(entry[1].joinUrl.value)

\* Mutant: the phone entries are pushed first.
ToEntryPoints_PhonesFirst(conference) ==
     [i \in 1..Len(conference.phone) |-> ToPhoneEntryPoint(conference.phone[i])]
  \o (IF HasJoinUrl(conference.video)
      THEN <<ToVideoEntryPoint(conference.video[1])>> ELSE <<>>)
  \o (IF HasJoinUrl(conference.sip)
      THEN <<ToSipEntryPoint(conference.sip[1])>> ELSE <<>>)

ToEntryPoints(conference) ==
     (IF HasJoinUrl(conference.video)
      THEN <<ToVideoEntryPoint(conference.video[1])>> ELSE <<>>)
  \o (IF HasJoinUrl(conference.sip)
      THEN <<ToSipEntryPoint(conference.sip[1])>> ELSE <<>>)
  \o [i \in 1..Len(conference.phone) |-> ToPhoneEntryPoint(conference.phone[i])]

ConferenceSolutionType(name) ==
  IF Truthy(name)
  THEN IF Includes(ToLowerCase(name[1]), "google") THEN "hangoutsMeet" ELSE "addOn"
  ELSE "hangoutsMeet"

ConferenceSolutionName(name) == Coalesce(name, Some("Google Meet"))

toGoogleCalendarConferenceData(conference) ==
  LET entryPoints == ToEntryPoints(conference)
  IN  [conferenceId       |-> conference.conferenceId,
       conferenceSolution |->
         Some([name |-> ConferenceSolutionName(conference.name),
               key  |-> [type |-> ConferenceSolutionType(conference.name)]]),
       entryPoints        |->
         IF Len(entryPoints) > 0 THEN Some(entryPoints) ELSE None,
       parameters         |->
         \* String(value) of each entry; the values of extra are strings here
         IF IsSome(conference.extra)
         THEN Some([addOnParameters |-> [parameters |-> conference.extra[1]]])
         ELSE None]

---------------------------------------------------------------------------
(* The meeting-link detector of @analog/meeting-links: for a URL, the      *)
(* service {id, name, joinUrl} it belongs to, or undefined.  A URL belongs *)
(* to a service when it is an http(s) URL whose host is the service's.     *)

MeetingServices ==
  { [id |-> "google-meet", name |-> "Google Meet", host |-> "meet.google.com"],
    [id |-> "zoom", name |-> "Zoom", host |-> "zoom.us"] }

AfterHttpScheme(lower) ==
  IF StartsWith(lower, "https://") THEN SubSeq(lower, 9, Len(lower))
  ELSE IF StartsWith(lower, "http://") THEN SubSeq(lower, 8, Len(lower))
  ELSE ""

HostPart(authority) == SubSeq(authority, 1, IndexOfAny(authority, "/?#", 1) - 1)

UrlHost(url) == HostPart(AfterHttpScheme(ToLowerCase(url)))

ServiceOf(services, url) ==
  IF services = {} THEN None
  ELSE Some([id      |-> (CHOOSE m \in services : TRUE).id,
             name    |-> (CHOOSE m \in services : TRUE).name,
             joinUrl |-> url])

ServicesAt(host) == { m \in MeetingServices : m.host = host }

detectMeetingLink(url) == ServiceOf(ServicesAt(UrlHost(url)), url)

---------------------------------------------------------------------------
(* parseGoogleCalendarConferenceFallback                                   *)

\* The characters the URL pattern excludes: whitespace and the quoting and
\* bracket characters of its negated class.  (The grave accent, also in the
\* class, cannot be written in a TLA+ string; no text of the model has one.)
UrlStops == " \t\n\r<>\"'{}|\\^[]"

\* Length of the match of https?:\/\/ (flag i) at position i, 0 when none.
SchemeMatch(text, i) ==
  IF StartsWithIgnoringCaseAt(text, "https://", i) THEN Len("https://")
  ELSE IF StartsWithIgnoringCaseAt(text, "http://", i) THEN Len("http://")
  ELSE 0

\* text.match(urlRegex) || [], scanning from i: the scheme, then one or more
\* characters outside UrlStops;
\* leftmost match, longest run of allowed characters, resumed after it.
RECURSIVE ExtractUrlsFrom(_, _)

\* The match at i, if any, given the length p of the scheme matched at i and
\* the position e of the first excluded character after it.
ExtractUrlsMatching(text, i, p, e) ==
  IF p > 0 /\ e > i + p
  THEN <<SubSeq(text, i, e - 1)>> \o ExtractUrlsFrom(text, e)
  ELSE ExtractUrlsFrom(text, i + 1)

ExtractUrlsAfterScheme(text, i, p) ==
  ExtractUrlsMatching(text, i, p, IndexOfAny(text, UrlStops, i + p))

ExtractUrlsFrom(text, i) ==
  IF i > Len(text) THEN <<>>
  ELSE ExtractUrlsAfterScheme(text, i, SchemeMatch(text, i))

extractUrls(text) == ExtractUrlsFrom(text, 1)

\* A domain entry point with every property the adapter reads or writes.
ConferenceEntry(value, label, meetingCode, accessCode, password) ==
  [joinUrl |-> [value |-> value, label |-> label],
   meetingCode |-> meetingCode, accessCode |-> accessCode, password |-> password]

\* A domain Conference.  An absent phone list is the empty sequence: the
\* adapter never builds an empty list and reads both alike (phone?.length).
Conference(id, conferenceId, name, video, sip, phone) ==
  [id |-> id, conferenceId |-> conferenceId, name |-> name,
   video |-> video, sip |-> sip, phone |-> phone, extra |-> None]

\* The Conference checkMeetingLink builds from the detector's result.
ServiceConference(service) ==
  IF IsSome(service)
  THEN Some(Conference(Some(service[1].id), None, Some(service[1].name),
              Some(ConferenceEntry(Some(service[1].joinUrl), None,
                                   Some(service[1].id), None, None)),
              None, <<>>))
  ELSE None

checkMeetingLink(url) == ServiceConference(detectMeetingLink(url))

\* if (service) return service; and otherwise what the code goes on to do
ReturnOrElse(service, rest) == IF IsSome(service) THEN service ELSE rest

\* for (const url of urls) { ... if (service) return service; }
RECURSIVE CheckUrls(_)
CheckUrls(urls) ==
  IF urls = <<>> THEN None
  ELSE ReturnOrElse(checkMeetingLink(Head(urls)), CheckUrls(Tail(urls)))

\* if (attachment.fileUrl) { const service = checkMeetingLink(...) }
CheckAttachment(attachment) ==
  IF Truthy(attachment.fileUrl) THEN checkMeetingLink(attachment.fileUrl[1])
  ELSE None

\* for (const attachment of event.attachments) { ... }
RECURSIVE CheckAttachments(_)
CheckAttachments(attachments) ==
  IF attachments = <<>> THEN None
  ELSE ReturnOrElse(CheckAttachment(Head(attachments)),
                    CheckAttachments(Tail(attachments)))

FallbackGadget(event) ==
  IF IsSome(event.gadget) /\ Truthy(event.gadget[1].link)
  THEN checkMeetingLink(event.gadget[1].link[1])
  ELSE None

FallbackAttachments(event) ==
  ReturnOrElse(IF IsSome(event.attachments)
               THEN CheckAttachments(event.attachments[1]) ELSE None,
               FallbackGadget(event))

FallbackSource(event) ==
  ReturnOrElse(IF IsSome(event.source) /\ Truthy(event.source[1].url)
               THEN checkMeetingLink(event.source[1].url[1]) ELSE None,
               FallbackAttachments(event))

FallbackLocation(event) ==
  ReturnOrElse(IF Truthy(event.location)
               THEN CheckUrls(extractUrls(event.location[1])) ELSE None,
               FallbackSource(event))

FallbackDescription(event) ==
  ReturnOrElse(IF Truthy(event.description)
               THEN CheckUrls(extractUrls(event.description[1])) ELSE None,
               FallbackLocation(event))

\* Mutant: the description and the later sources are scanned before
\* hangoutLink.
parseGoogleCalendarConferenceFallback_TextFirst(event) ==
  ReturnOrElse(FallbackDescription(event),
               IF Truthy(event.hangoutLink)
               THEN checkMeetingLink(event.hangoutLink[1]) ELSE None)

parseGoogleCalendarConferenceFallback(event) ==
  ReturnOrElse(IF Truthy(event.hangoutLink)
               THEN checkMeetingLink(event.hangoutLink[1]) ELSE None,
               FallbackDescription(event))

---------------------------------------------------------------------------
(* parseGoogleCalendarConferenceData                                       *)

\* Mutant: the last entry point of the type is taken.
RECURSIVE FindEntryPoint_Last(_, _)
FindEntryPoint_Last(entryPoints, type) ==
  IF entryPoints = <<>> THEN None
  ELSE LET later == FindEntryPoint_Last(Tail(entryPoints), type)
       IN  IF IsSome(later) THEN later
           ELSE IF Head(entryPoints).entryPointType = type
           THEN Some(Head(entryPoints)) ELSE None

\* entryPoints.find((e) => e.entryPointType === type), as an optional value
RECURSIVE FindEntryPoint(_, _)
FindEntryPoint(entryPoints, type) ==
  IF entryPoints = <<>> THEN None
  ELSE IF Head(entryPoints).entryPointType = type THEN Some(Head(entryPoints))
  ELSE FindEntryPoint(Tail(entryPoints), type)

IsPhoneEntryPoint(e) == e.entryPointType = "phone" /\ Truthy(e.uri)

\* entryPoints.filter((e) => e.entryPointType === "phone" && e.uri)
PhoneEntryPoints(entryPoints) == SelectSeq(entryPoints, IsPhoneEntryPoint)

\* Mutant: the password is read from the legacy pin property.
ParseEntryPoint_LegacyPin(entryPoint) ==
  ConferenceEntry(entryPoint.uri, entryPoint.label, entryPoint.meetingCode,
                  entryPoint.accessCode, entryPoint.pin)

ParseEntryPoint(entryPoint) ==
  ConferenceEntry(entryPoint.uri, entryPoint.label, entryPoint.meetingCode,
                  entryPoint.accessCode, entryPoint.password)

\* ...(entryPoint && entryPoint.uri && { video: {...} })
ParseOptionalEntryPoint(entryPoint) ==
  IF IsSome(entryPoint) /\ Truthy(entryPoint[1].uri)
  THEN Some(ParseEntryPoint(entryPoint[1]))
  ELSE None

\* detectMeetingLink(uri)?.id
ServiceId(service) == IF IsSome(service) THEN Some(service[1].id) ELSE None

ParseConferenceId(videoEntryPoint) ==
  IF IsSome(videoEntryPoint) /\ Truthy(videoEntryPoint[1].uri)
  THEN ServiceId(detectMeetingLink(videoEntryPoint[1].uri[1]))
  ELSE None

ParsePhoneEntryPoints(phoneEntryPoints) ==
  [i \in 1..Len(phoneEntryPoints) |-> ParseEntryPoint(phoneEntryPoints[i])]

ParseSelectedEntryPoints(conferenceData, videoEntryPoint, sipEntryPoint, phoneEntryPoints) ==
  Conference(ParseConferenceId(videoEntryPoint),
             conferenceData.conferenceId,
             IF IsSome(conferenceData.conferenceSolution)
             THEN conferenceData.conferenceSolution[1].name ELSE None,
             ParseOptionalEntryPoint(videoEntryPoint),
             ParseOptionalEntryPoint(sipEntryPoint),
             ParsePhoneEntryPoints(phoneEntryPoints))

ParseStructuredConference(conferenceData) ==
  ParseSelectedEntryPoints(
    conferenceData,
    FindEntryPoint(conferenceData.entryPoints[1], "video"),
    FindEntryPoint(conferenceData.entryPoints[1], "sip"),
    PhoneEntryPoints(conferenceData.entryPoints[1]))

\* Mutant: the fallback is also taken when the list has no video entry.
NoEntryPoints_NoVideo(event) ==
  \/ ~IsSome(event.conferenceData)
  \/ ~IsSome(event.conferenceData[1].entryPoints)
  \/ \A i \in 1..Len(event.conferenceData[1].entryPoints[1]) :
       event.conferenceData[1].entryPoints[1][i].entryPointType # "video"

\* !event.conferenceData?.entryPoints?.length
NoEntryPoints(event) ==
  \/ ~IsSome(event.conferenceData)
  \/ ~IsSome(event.conferenceData[1].entryPoints)
  \/ Len(event.conferenceData[1].entryPoints[1]) = 0

parseGoogleCalendarConferenceData(event) ==
  IF NoEntryPoints(event)
  THEN parseGoogleCalendarConferenceFallback(event)
  ELSE Some(ParseStructuredConference(event.conferenceData[1]))

---------------------------------------------------------------------------
(* Attendees                                                               *)

toGoogleCalendarAttendeeResponseStatus(status) ==
  IF status = "unknown" THEN "needsAction" ELSE status

\* Mutant: the status is passed through.
parseGoogleCalendarAttendeeStatus_Same(status) == status

parseGoogleCalendarAttendeeStatus(status) ==
  IF status = "needsAction" THEN "unknown" ELSE status

parseGoogleCalendarAttendeeType(attendee) ==
  IF attendee.resource THEN "resource"
  ELSE IF attendee.optional THEN "optional"
  ELSE "required"

parseGoogleCalendarAttendee(attendee) ==
  [id |-> attendee.id, email |-> attendee.email, name |-> attendee.displayName,
   status |-> parseGoogleCalendarAttendeeStatus(attendee.responseStatus),
   type |-> parseGoogleCalendarAttendeeType(attendee),
   comment |-> attendee.comment,
   additionalGuests |-> attendee.additionalGuests]

\* event.attendees?.find((a) => a.self)
RECURSIVE FindSelf(_)
FindSelf(attendees) ==
  IF attendees = <<>> THEN None
  ELSE IF Head(attendees).self THEN Some(Head(attendees))
  ELSE FindSelf(Tail(attendees))

ResponseOf(selfAttendee) ==
  IF ~IsSome(selfAttendee) THEN None
  ELSE Some([status  |-> parseGoogleCalendarAttendeeStatus(
                           selfAttendee[1].responseStatus),
             comment |-> selfAttendee[1].comment])

parseResponseStatus(event) ==
  ResponseOf(IF IsSome(event.attendees) THEN FindSelf(event.attendees[1])
             ELSE None)

---------------------------------------------------------------------------
(* parseGoogleCalendarEvent.  A call either returns a value or throws.  A  *)
(* Temporal value is its type, the text it was parsed from and, for a      *)
(* zoned date-time, the zone id; Temporal's from() throws on undefined.    *)

Return(v) == [completion |-> "return", value |-> v]

Throw == [completion |-> "throw"]

Returned(r) == r.completion = "return"

\* parseDate({ date }): destructuring undefined throws, as does from(undefined)
parseDate(field) ==
  IF ~IsSome(field) \/ ~IsSome(field[1].date) THEN Throw
  ELSE Return([type |-> "PlainDate", text |-> field[1].date[1], timeZone |-> None])

\* Mutant: the timeZone of the payload is ignored.
parseDateTime_NoZone(field) ==
  IF ~IsSome(field) \/ ~IsSome(field[1].dateTime) THEN Throw
  ELSE Return([type |-> "Instant", text |-> field[1].dateTime[1],
               timeZone |-> None])

parseDateTime(field) ==
  IF ~IsSome(field) \/ ~IsSome(field[1].dateTime) THEN Throw
  ELSE IF ~Truthy(field[1].timeZone)
  THEN Return([type |-> "Instant", text |-> field[1].dateTime[1],
               timeZone |-> None])
  ELSE Return([type |-> "ZonedDateTime", text |-> field[1].dateTime[1],
               timeZone |-> field[1].timeZone])

\* !event.start?.dateTime
IsAllDay(event) == ~(IsSome(event.start) /\ Truthy(event.start[1].dateTime))

\* isAllDay ? parseDate(field) : parseDateTime(field)
ParseEventDate(isAllDay, field) ==
  IF isAllDay THEN parseDate(field) ELSE parseDateTime(field)

\* The returned object, once start and end are evaluated without throwing.
CalendarEventOf(calendar, accountId, event, isAllDay, start, end) ==
  IF ~Returned(start) \/ ~Returned(end) THEN Throw
  ELSE Return(
    [id |-> event.id, title |-> event.summary,
     description |-> event.description,
     start |-> start.value, end |-> end.value, allDay |-> isAllDay,
     location |-> event.location, status |-> event.status,
     attendees |-> IF IsSome(event.attendees)
                   THEN [i \in 1..Len(event.attendees[1]) |->
                           parseGoogleCalendarAttendee(event.attendees[1][i])]
                   ELSE <<>>,
     url |-> event.htmlLink, providerId |-> "google",
     accountId |-> accountId, calendarId |-> calendar.id,
     readOnly |-> calendar.readOnly,
     conference |-> parseGoogleCalendarConferenceData(event),
     response |-> parseResponseStatus(event)])

parseGoogleCalendarEvent(calendar, accountId, event) ==
  CalendarEventOf(calendar, accountId, event, IsAllDay(event),
                  ParseEventDate(IsAllDay(event), event.start),
                  ParseEventDate(IsAllDay(event), event.end))

---------------------------------------------------------------------------
(* The inputs the functions are applied to                                 *)

MaxPhones == 2

MaxEntryPoints == 3

MaxAttachments == 2

MaxAttendees == 2

SeqsUpTo(S, n) == UNION { [1..k -> S] : k \in 0..n }

MeetUrl == "https://meet.google.com/abc"

VideoInputs ==
  { ConferenceEntry(value, None, meetingCode, None, password) :
      value \in {Some(""), Some(MeetUrl)},
      meetingCode \in {None, Some(""), Some("abc")},
      password \in {None, Some("pw")} }
  \cup
  { ConferenceEntry(value, Some("Join"), Some("abc"), Some("ignored"), None) :
      value \in {None, Some(MeetUrl)} }

SipInputs ==
  { ConferenceEntry(value, None, meetingCode, None, None) :
      value \in {Some(""), Some("sip:room@example.com")},
      meetingCode \in {None, Some("77")} }

PhoneInputs ==
  { ConferenceEntry(Some("15551234567"), None, None, None, None),
    ConferenceEntry(Some("+442071234567"), Some("UK"), None, Some("1234"), None),
    ConferenceEntry(Some("tel:555"), None, None, Some(""), None) }

NameInputs ==
  {None, Some(""), Some("Google Meet"), Some("GOOGLE Duo"), Some("Zoom")}

Conferences ==
  { Conference(None, Some("c1"), name, video, sip, phone) :
      name \in NameInputs,
      video \in {None} \cup {Some(v) : v \in VideoInputs},
      sip \in {None} \cup {Some(v) : v \in SipInputs},
      phone \in SeqsUpTo(PhoneInputs, MaxPhones) }
  \cup
  { [Conference(None, None, None, Some(v), None, <<>>)
       EXCEPT !.extra = Some([room |-> "4"])] : v \in VideoInputs }

\* The entry points a provider payload is drawn from: two video entries, one
\* without a URI, two sip entries, phone entries with and without a URI and
\* an entry of another type.
EntryPointInputs ==
  { EntryPoint("video", Some(MeetUrl), Some("Meet"), Some("abc"), Some("abc"),
               Some("pw"), None, None),
    EntryPoint("video", Some("https://zoom.us/j/1"), None, None, None,
               None, None, None),
    EntryPoint("video", None, None, None, None, None, None, None),
    EntryPoint("sip", Some("sip:room@example.com"), None, Some("77"), None,
               None, None, None),
    EntryPoint("sip", Some(""), None, None, None, None, None, None),
    EntryPoint("phone", Some("tel:555"), Some("US"), None, Some("1234"),
               None, None, Some("1234")),
    EntryPoint("phone", Some("tel:777"), None, None, None, None, None, None),
    EntryPoint("phone", None, None, None, None, None, None, None),
    EntryPoint("more", Some("https://example.com/more"), None, None, None,
               None, None, None) }

ConferenceData(conferenceId, solution, entryPoints) ==
  [conferenceId |-> conferenceId, conferenceSolution |-> solution,
   entryPoints |-> entryPoints, parameters |-> None]

ZoomSolution == Some([name |-> Some("Zoom"), key |-> [type |-> "addOn"]])

PlainDay(date) == Some([date |-> Some(date), dateTime |-> None, timeZone |-> None])

BaseEvent ==
  [id |-> Some("e1"), summary |-> Some("Standup"), description |-> None,
   location |-> None, status |-> Some("confirmed"), htmlLink |-> None,
   start |-> PlainDay("2025-03-01"), end |-> PlainDay("2025-03-02"),
   attendees |-> None, conferenceData |-> None, hangoutLink |-> None,
   source |-> None, attachments |-> None, gadget |-> None]

\* Events with structured entry points, with and without meeting URLs in the
\* fields the fallback scans.
StructuredEvents ==
  { [BaseEvent EXCEPT !.conferenceData = Some(ConferenceData(id, ZoomSolution, Some(eps))),
                      !.hangoutLink = hangoutLink,
                      !.description = description] :
      id \in {Some("c1")},
      eps \in SeqsUpTo(EntryPointInputs, MaxEntryPoints) \ {<<>>},
      hangoutLink \in {None, Some("https://meet.google.com/h")},
      description \in {Some("Join https://zoom.us/j/9 now")} }

HangoutLinkInputs ==
  {None, Some(""), Some("https://meet.google.com/h"), Some("https://example.com/h")}

DescriptionInputs ==
  {None,
   Some("Agenda at http://example.com/a, join <HTTPS://zoom.us/j/1> or https://meet.google.com/d"),
   Some("Slides (https:// only): https://example.com/s and \"https://meet.google.com/d\"")}

LocationInputs == {None, Some("Room 4 or https://zoom.us/j/2")}

SourceInputs ==
  {None, Some([url |-> Some("https://meet.google.com/s")]),
   Some([url |-> Some("https://example.com/s")])}

AttachmentInputs ==
  { [fileUrl |-> None], [fileUrl |-> Some("https://zoom.us/j/3")],
    [fileUrl |-> Some("https://meet.google.com/f")] }

GadgetInputs ==
  {None, Some([link |-> None]), Some([link |-> Some("https://meet.google.com/g")])}

\* Events without structured entry points: conferenceData undefined, without
\* an entryPoints list, or with an empty one.
NoConferenceDataInputs ==
  {None, Some(ConferenceData(Some("c1"), ZoomSolution, None)),
   Some(ConferenceData(Some("c1"), ZoomSolution, Some(<<>>)))}

UnstructuredEvents ==
  { [BaseEvent EXCEPT !.hangoutLink = hangoutLink, !.description = description,
                      !.location = location, !.source = source,
                      !.attachments = attachments, !.gadget = gadget] :
      hangoutLink \in HangoutLinkInputs, description \in DescriptionInputs,
      location \in LocationInputs, source \in SourceInputs,
      attachments \in {None} \cup
        {Some(a) : a \in SeqsUpTo(AttachmentInputs, MaxAttachments)},
      gadget \in GadgetInputs }

\* A few of them under each shape of missing conference data.
UnstructuredConferenceEvents ==
  { [e EXCEPT !.conferenceData = cd] :
      cd \in NoConferenceDataInputs,
      e \in { u \in UnstructuredEvents :
                u.location = None /\ u.source = None /\ u.attachments = None } }

AttendeeStatuses == {"accepted", "tentative", "declined", "unknown"}

ProviderStatuses == {"accepted", "tentative", "declined", "needsAction"}

AttendeeInputs ==
  { [id |-> None, email |-> Some("a@example.com"), displayName |-> None,
     responseStatus |-> status, self |-> self, resource |-> FALSE,
     optional |-> optional, comment |-> None, additionalGuests |-> None] :
      status \in {"needsAction", "accepted"}, self \in BOOLEAN,
      optional \in {FALSE} }

DateFieldInputs ==
  {None, PlainDay("2025-03-01"),
   Some([date |-> None, dateTime |-> Some("2025-03-01T10:00:00Z"),
         timeZone |-> None]),
   Some([date |-> None, dateTime |-> Some("2025-03-01T10:00:00+01:00"),
         timeZone |-> Some("Europe/Paris")]),
   Some([date |-> None, dateTime |-> None, timeZone |-> Some("Europe/Paris")])}

CalendarEvents ==
  { [BaseEvent EXCEPT !.start = start, !.end = end, !.attendees = attendees,
                      !.hangoutLink = hangoutLink] :
      start \in DateFieldInputs, end \in DateFieldInputs,
      attendees \in {None} \cup
        {Some(a) : a \in SeqsUpTo(AttendeeInputs, MaxAttendees)},
      hangoutLink \in {None, Some("https://meet.google.com/h")} }

TheCalendar ==
  [id |-> "primary", providerId |-> "google", name |-> "Work",
   primary |-> TRUE, accountId |-> "acc1", readOnly |-> FALSE]

---------------------------------------------------------------------------
(* The state machine.  The functions are pure and keep nothing between     *)
(* calls, so a behaviour is one call from the initial state, followed at   *)
(* most by the parse of the payload that call produced.  op is the         *)
(* function last called, input its argument and output its result; sent is *)
(* the Conference a parsed payload was mapped from, when the payload is    *)
(* one the adapter produced.                                               *)

Init ==
  /\ op = "init"
  /\ input = None
  /\ output = None
  /\ sent = None

ToConferenceData ==
  /\ op = "init"
  /\ \E conference \in Conferences :
       /\ op' = "toGoogleCalendarConferenceData"
       /\ input' = conference
       /\ output' = toGoogleCalendarConferenceData(conference)
       /\ sent' = None

\* The provider returns the conference data it was sent inside an event.
ParseSentConferenceData ==
  /\ op = "toGoogleCalendarConferenceData"
  /\ op' = "parseSentConferenceData"
  /\ input' = [BaseEvent EXCEPT !.conferenceData = Some(output)]
  /\ output' = parseGoogleCalendarConferenceData(input')
  /\ sent' = Some(input)

ParseConferenceData ==
  /\ op = "init"
  /\ \E event \in StructuredEvents \cup UnstructuredConferenceEvents :
       /\ op' = "parseGoogleCalendarConferenceData"
       /\ input' = event
       /\ output' = parseGoogleCalendarConferenceData(event)
       /\ sent' = None

ParseConferenceFallback ==
  /\ op = "init"
  /\ \E event \in UnstructuredEvents :
       /\ op' = "parseGoogleCalendarConferenceFallback"
       /\ input' = event
       /\ output' = parseGoogleCalendarConferenceFallback(event)
       /\ sent' = None

ToAttendeeResponseStatus ==
  /\ op = "init"
  /\ \E status \in AttendeeStatuses :
       /\ op' = "toGoogleCalendarAttendeeResponseStatus"
       /\ input' = status
       /\ output' = toGoogleCalendarAttendeeResponseStatus(status)
       /\ sent' = None

ParseAttendeeStatus ==
  /\ op = "init"
  /\ \E status \in ProviderStatuses :
       /\ op' = "parseGoogleCalendarAttendeeStatus"
       /\ input' = status
       /\ output' = parseGoogleCalendarAttendeeStatus(status)
       /\ sent' = None

ParseEvent ==
  /\ op = "init"
  /\ \E event \in CalendarEvents :
       /\ op' = "parseGoogleCalendarEvent"
       /\ input' = event
       /\ output' = parseGoogleCalendarEvent(TheCalendar, "acc1", event)
       /\ sent' = None

Next ==
  \/ ToConferenceData
  \/ ParseSentConferenceData
  \/ ParseConferenceData
  \/ ParseConferenceFallback
  \/ ToAttendeeResponseStatus
  \/ ParseAttendeeStatus
  \/ ParseEvent

Spec == Init /\ [][Next]_vars

---------------------------------------------------------------------------
(* Properties of toGoogleCalendarConferenceData                            *)

Mapped == op = "toGoogleCalendarConferenceData"

\* The entry points of the mapped payload, empty when the list is undefined.
MappedEntryPoints ==
  IF IsSome(output.entryPoints) THEN output.entryPoints[1] ELSE <<>>

EntryPointTypes(entryPoints) ==
  [i \in 1..Len(entryPoints) |-> entryPoints[i].entryPointType]

\* The phone entry points are the last Len(phone) ones, in the input's order:
\* the i-th carries the i-th number, with or without the tel: prefix.
PhonesInOrder(conference, entryPoints) ==
  LET offset == Len(entryPoints) - Len(conference.phone)
  IN  \A i \in 1..Len(conference.phone) :
        LET value == conference.phone[i].joinUrl.value[1]
        IN  entryPoints[offset + i].uri \in {Some(value), Some("tel:" \o value)}

TypesFor(hasVideo, hasSip, conference) ==
     (IF hasVideo THEN <<"video">> ELSE <<>>)
  \o (IF hasSip THEN <<"sip">> ELSE <<>>)
  \o [i \in 1..Len(conference.phone) |-> "phone"]

\* C4 as stated: the entry points are one video entry if the input has a
\* video entry, then one sip entry if it has a sip entry, then one phone entry
\* per phone number, in order, and nothing else.
C4_AsStated ==
  Mapped =>
    /\ EntryPointTypes(MappedEntryPoints)
         = TypesFor(IsSome(input.video), IsSome(input.sip), input)
    /\ PhonesInOrder(input, MappedEntryPoints)

\* C4 amended: the entry points are one video entry if the input has a video
\* entry with a non-empty joinUrl value, then one sip entry if it has a sip
\* entry with a non-empty joinUrl value, then one phone entry per phone
\* number, in the input's order, and nothing else.
C4_EntryPointOrder ==
  Mapped =>
    /\ EntryPointTypes(MappedEntryPoints)
         = TypesFor(HasJoinUrl(input.video), HasJoinUrl(input.sip), input)
    /\ PhonesInOrder(input, MappedEntryPoints)

C4_Witness ==
  /\ Mapped
  /\ HasJoinUrl(input.video)
  /\ HasJoinUrl(input.sip)
  /\ Len(input.phone) = 2
  /\ input.phone[1] # input.phone[2]
  /\ Len(MappedEntryPoints) = 4

BothOrNeither(a, b) == (IsSome(a) \/ IsSome(b)) => (IsSome(a) /\ a = b)

C6_PhoneUri ==
  Mapped =>
    \A i \in 1..Len(input.phone) :
      LET value == input.phone[i].joinUrl.value[1]
          e     == MappedEntryPoints[Len(MappedEntryPoints) - Len(input.phone) + i]
      IN  /\ e.entryPointType = "phone"
          /\ IsSome(e.uri)
          /\ SubSeq(value, 1, 4) = "tel:" => e.uri[1] = value
          /\ SubSeq(value, 1, 4) # "tel:" => e.uri[1] = "tel:" \o value
          /\ value = "15551234567" => e.uri[1] = "tel:15551234567"
          /\ value = "tel:555" => e.uri[1] = "tel:555"
          /\ SubSeq(e.uri[1], 1, 4) = "tel:"
          /\ ToPhoneUri(e.uri[1]) = e.uri[1]

C6_Witness ==
  /\ Mapped
  /\ Len(input.phone) = 2
  /\ input.phone[1].joinUrl.value = Some("15551234567")
  /\ input.phone[2].joinUrl.value = Some("tel:555")
  /\ MappedEntryPoints[Len(MappedEntryPoints)].uri = Some("tel:555")

\* C9: the solution name is the supplied name, "Google Meet" when none is
\* supplied; the type key is "hangoutsMeet" when no name is supplied or the
\* supplied name contains "google" in any case, and "addOn" for every other
\* supplied name; a solution under a name without "google" is never typed
\* "hangoutsMeet".
C9_SolutionNameAndType ==
  Mapped =>
    LET solution == output.conferenceSolution[1]
        isGoogle(name) == \E i \in 1..Len(name) :
                            /\ i + 5 <= Len(name)
                            /\ ToLowerCase(SubSeq(name, i, i + 5)) = "google"
    IN  /\ solution.name =
             (IF IsSome(input.name) THEN input.name ELSE Some("Google Meet"))
        /\ solution.key.type =
             (IF ~IsSome(input.name) THEN "hangoutsMeet"
              ELSE IF isGoogle(input.name[1]) THEN "hangoutsMeet"
              ELSE "addOn")
        /\ solution.key.type = "hangoutsMeet" => isGoogle(solution.name[1])

---------------------------------------------------------------------------
(* Properties of the round trip                                            *)

RoundTripped == op = "parseSentConferenceData"

HasAnyEntry(conference) ==
  IsSome(conference.video) \/ IsSome(conference.sip) \/ Len(conference.phone) > 0

\* An empty code and an absent one are taken as equivalent.
SameCode(a, b) == Spread(a) = Spread(b)

SameEntry(entry, parsed) ==
  /\ IsSome(parsed)
  /\ parsed[1].joinUrl.value = entry.joinUrl.value
  /\ SameCode(parsed[1].meetingCode, entry.meetingCode)
  /\ SameCode(parsed[1].password, entry.password)

\* C1 as stated: for an input with a video, sip or phone entry, parsing the
\* mapped payload gives video and sip entries with the input's joinUrl value,
\* meetingCode and password, and a phone list of the same length and order
\* with the input's joinUrl values and accessCodes.
C1_AsStated ==
  (RoundTripped /\ HasAnyEntry(sent[1])) =>
    /\ IsSome(output)
    /\ IsSome(sent[1].video) => SameEntry(sent[1].video[1], output[1].video)
    /\ IsSome(sent[1].sip) => SameEntry(sent[1].sip[1], output[1].sip)
    /\ Len(output[1].phone) = Len(sent[1].phone)
    /\ \A i \in 1..Len(sent[1].phone) :
         /\ output[1].phone[i].joinUrl.value = sent[1].phone[i].joinUrl.value
         /\ SameCode(output[1].phone[i].accessCode, sent[1].phone[i].accessCode)

\* The entries of the input that the payload carries.
HasMappedEntry(conference) ==
  HasJoinUrl(conference.video) \/ HasJoinUrl(conference.sip)
    \/ Len(conference.phone) > 0

RoundTripEntry(entry, parsed) ==
  IF HasJoinUrl(entry) THEN SameEntry(entry[1], parsed) ELSE parsed = None

\* C1 amended: for an input with a video or sip entry whose joinUrl value is
\* not empty, or with a phone entry, parsing the mapped payload gives a video
\* (sip) entry exactly when the input has one with a non-empty joinUrl value,
\* with that joinUrl value and the input's meetingCode and password (absent
\* when empty), and a phone list of the same length and order whose joinUrl
\* values are the input's prefixed with "tel:" unless they already start with
\* it, with the input's accessCodes (absent when empty).
C1_RoundTrip ==
  (RoundTripped /\ HasMappedEntry(sent[1])) =>
    /\ IsSome(output)
    /\ RoundTripEntry(sent[1].video, output[1].video)
    /\ RoundTripEntry(sent[1].sip, output[1].sip)
    /\ Len(output[1].phone) = Len(sent[1].phone)
    /\ \A i \in 1..Len(sent[1].phone) :
         LET value == sent[1].phone[i].joinUrl.value[1]
         IN  /\ output[1].phone[i].joinUrl.value =
                  Some(IF SubSeq(value, 1, 4) = "tel:" THEN value
                       ELSE "tel:" \o value)
             /\ output[1].phone[i].accessCode =
                  Spread(sent[1].phone[i].accessCode)

C1_Witness ==
  /\ RoundTripped
  /\ HasJoinUrl(sent[1].video) /\ Truthy(sent[1].video[1].password)
  /\ HasJoinUrl(sent[1].sip)
  /\ Len(sent[1].phone) = 2
  /\ sent[1].phone[1].joinUrl.value = Some("15551234567")
  /\ IsSome(output)
  /\ Len(output[1].phone) = 2

---------------------------------------------------------------------------
(* Properties of parseGoogleCalendarConferenceFallback                     *)

ScannedFallback == op = "parseGoogleCalendarConferenceFallback"

\* The candidate sources in the order the claim gives.
OptionalUrl(url) == IF Truthy(url) THEN <<url[1]>> ELSE <<>>

RECURSIVE FileUrls(_)
FileUrls(attachments) ==
  IF attachments = <<>> THEN <<>>
  ELSE OptionalUrl(Head(attachments).fileUrl) \o FileUrls(Tail(attachments))

Candidates(event) ==
     OptionalUrl(event.hangoutLink)
  \o (IF Truthy(event.description) THEN extractUrls(event.description[1]) ELSE <<>>)
  \o (IF Truthy(event.location) THEN extractUrls(event.location[1]) ELSE <<>>)
  \o (IF IsSome(event.source) THEN OptionalUrl(event.source[1].url) ELSE <<>>)
  \o (IF IsSome(event.attachments) THEN FileUrls(event.attachments[1]) ELSE <<>>)
  \o (IF IsSome(event.gadget) THEN OptionalUrl(event.gadget[1].link) ELSE <<>>)

Recognized(urls) == { i \in 1..Len(urls) : IsSome(detectMeetingLink(urls[i])) }

\* The result is the Conference of the first recognized candidate, undefined
\* when there is none.
FirstRecognizedWins(event, result) ==
  LET urls == Candidates(event)
      hits == Recognized(urls)
  IN  IF hits = {} THEN result = None
      ELSE LET first   == CHOOSE i \in hits : \A j \in hits : i <= j
               service == detectMeetingLink(urls[first])[1]
           IN  /\ IsSome(result)
               /\ result[1].id = Some(service.id)
               /\ result[1].name = Some(service.name)
               /\ IsSome(result[1].video)
               /\ result[1].video[1].joinUrl.value = Some(service.joinUrl)
               /\ result[1].video[1].meetingCode = Some(service.id)
               /\ result[1].sip = None
               /\ result[1].phone = <<>>

\* C2: the fallback returns the Conference built from the first candidate the
\* detector recognizes, scanning hangoutLink, the URLs of the description, the
\* URLs of the location, source.url, the attachments' fileUrl and gadget.link
\* in this order, and undefined iff no candidate is recognized.
C2_FirstMatchWins ==
  ScannedFallback => FirstRecognizedWins(input, output)

C2_Witness ==
  /\ ScannedFallback
  /\ input.hangoutLink = Some("https://meet.google.com/h")
  /\ Truthy(input.description)
  /\ Recognized(extractUrls(input.description[1])) # {}
  /\ IsSome(output)
  /\ output[1].video[1].joinUrl.value = input.hangoutLink

---------------------------------------------------------------------------
(* Properties of parseGoogleCalendarConferenceData                         *)

Parsed == op = "parseGoogleCalendarConferenceData"

HasEntryPoints(event) ==
  /\ IsSome(event.conferenceData)
  /\ IsSome(event.conferenceData[1].entryPoints)
  /\ event.conferenceData[1].entryPoints[1] # <<>>

\* The positions of the entry points of a type, in list order.
OfType(entryPoints, type) ==
  { i \in 1..Len(entryPoints) : entryPoints[i].entryPointType = type }

IsFirstOfType(entryPoints, i) ==
  \A j \in 1..(i - 1) :
    entryPoints[j].entryPointType # entryPoints[i].entryPointType

TakenFrom(entry, entryPoint) ==
  /\ entry.joinUrl.value = entryPoint.uri
  /\ entry.joinUrl.label = entryPoint.label
  /\ entry.meetingCode = entryPoint.meetingCode
  /\ entry.accessCode = entryPoint.accessCode
  /\ entry.password = entryPoint.password

\* The optional entry of a type is taken from the first entry point of the
\* type, and there is one only if that entry point has a URI.
FromFirstOfType(entry, entryPoints, type) ==
  IsSome(entry) =>
    \E i \in OfType(entryPoints, type) :
      /\ IsFirstOfType(entryPoints, i)
      /\ entryPoints[i].uri # None /\ entryPoints[i].uri # Some("")
      /\ TakenFrom(entry[1], entryPoints[i])

\* The positions of the phone entry points with a non-empty URI, ascending.
RECURSIVE UsablePhonesFrom(_, _)
UsablePhonesFrom(entryPoints, i) ==
  IF i > Len(entryPoints) THEN <<>>
  ELSE (IF /\ entryPoints[i].entryPointType = "phone"
           /\ entryPoints[i].uri # None /\ entryPoints[i].uri # Some("")
        THEN <<i>> ELSE <<>>) \o UsablePhonesFrom(entryPoints, i + 1)

\* C3: with a non-empty entryPoints list the result has at most one video and
\* one sip entry, each taken from the first entry point of its type, and its
\* phone list is exactly the phone entry points with a non-empty URI, in
\* their original order.
C3_StructuredSelection ==
  (Parsed /\ HasEntryPoints(input)) =>
    LET entryPoints == input.conferenceData[1].entryPoints[1]
        phones      == UsablePhonesFrom(entryPoints, 1)
    IN  /\ IsSome(output)
        /\ Len(output[1].video) <= 1
        /\ Len(output[1].sip) <= 1
        /\ FromFirstOfType(output[1].video, entryPoints, "video")
        /\ FromFirstOfType(output[1].sip, entryPoints, "sip")
        /\ Len(output[1].phone) = Len(phones)
        /\ \A k \in 1..Len(phones) :
             TakenFrom(output[1].phone[k], entryPoints[phones[k]])

C3_Witness ==
  /\ Parsed
  /\ HasEntryPoints(input)
  /\ LET entryPoints == input.conferenceData[1].entryPoints[1]
     IN  /\ Cardinality(OfType(entryPoints, "video")) = 2
         /\ entryPoints[1].uri = Some("https://zoom.us/j/1")
         /\ entryPoints[Len(entryPoints)].entryPointType = "phone"
         /\ entryPoints[Len(entryPoints)].uri = None
         /\ output[1].video[1].joinUrl.value = Some("https://zoom.us/j/1")
         /\ output[1].phone = <<>>

UsableEntryPoints(entryPoints) ==
  \/ \E i \in OfType(entryPoints, "video") \cup OfType(entryPoints, "sip") :
       /\ IsFirstOfType(entryPoints, i)
       /\ entryPoints[i].uri # None /\ entryPoints[i].uri # Some("")
  \/ UsablePhonesFrom(entryPoints, 1) # <<>>

\* C10: the result is the fallback scan's exactly when the entryPoints list
\* is absent or empty; with a non-empty list it is a defined Conference built
\* from the structured data alone, whatever hangoutLink and the description
\* hold, and when no entry point is a usable video, sip or phone entry it has
\* no video, sip or phone and an undefined id.
C10_FallbackOnlyWithoutEntryPoints ==
  Parsed =>
    IF ~HasEntryPoints(input) THEN FirstRecognizedWins(input, output)
    ELSE LET data        == input.conferenceData[1]
             entryPoints == data.entryPoints[1]
         IN  /\ IsSome(output)
             /\ output[1].conferenceId = data.conferenceId
             /\ output[1].name = data.conferenceSolution[1].name
             /\ output[1].video # None =>
                  \E i \in OfType(entryPoints, "video") :
                    TakenFrom(output[1].video[1], entryPoints[i])
             /\ output[1].id # None =>
                  \E i \in OfType(entryPoints, "video") :
                    /\ entryPoints[i].uri # None
                    /\ IsSome(detectMeetingLink(entryPoints[i].uri[1]))
                    /\ output[1].id =
                         Some(detectMeetingLink(entryPoints[i].uri[1])[1].id)
             /\ ~UsableEntryPoints(entryPoints) =>
                  /\ output[1].video = None
                  /\ output[1].sip = None
                  /\ output[1].phone = <<>>
                  /\ output[1].id = None

C10_Witness ==
  /\ Parsed
  /\ HasEntryPoints(input)
  /\ ~UsableEntryPoints(input.conferenceData[1].entryPoints[1])
  /\ input.conferenceData[1].entryPoints[1][1].entryPointType = "video"
  /\ input.hangoutLink = Some("https://meet.google.com/h")
  /\ IsSome(output)
  /\ output[1].id = None

---------------------------------------------------------------------------
(* Properties of the attendee status mappings                              *)

\* C7: outbound "unknown" is "needsAction" and inbound "needsAction" is
\* "unknown"; accepted, tentative and declined map to themselves both ways;
\* each mapping undoes the other on the four statuses of its domain.
C7_StatusMappings ==
  /\ op = "toGoogleCalendarAttendeeResponseStatus" =>
       /\ input = "unknown" => output = "needsAction"
       /\ input \in {"accepted", "tentative", "declined"} => output = input
       /\ output \in ProviderStatuses
       /\ parseGoogleCalendarAttendeeStatus(output) = input
  /\ op = "parseGoogleCalendarAttendeeStatus" =>
       /\ input = "needsAction" => output = "unknown"
       /\ input \in {"accepted", "tentative", "declined"} => output = input
       /\ output \in AttendeeStatuses
       /\ toGoogleCalendarAttendeeResponseStatus(output) = input

C7_Witness ==
  /\ op = "parseGoogleCalendarAttendeeStatus"
  /\ input = "needsAction"
  /\ output = "unknown"

---------------------------------------------------------------------------
(* Properties of parseGoogleCalendarEvent                                  *)

ParsedEvent == op = "parseGoogleCalendarEvent"

HasDateTime(field) == field # None /\ field[1].dateTime # None

HasTimeZone(field) == field # None /\ field[1].timeZone # None

DateTimeKind(field) == IF HasTimeZone(field) THEN "ZonedDateTime" ELSE "Instant"

\* C8: allDay is true exactly when start.dateTime is absent; an all-day event
\* has plain dates for start and end; any other event has date-times for
\* both, zoned when the payload field has a timeZone and an instant otherwise.
\* (A payload whose start or end lacks the field its kind needs makes
\* Temporal throw: no event is returned then.)
C8_AllDay ==
  (ParsedEvent /\ Returned(output)) =>
    LET event == output.value
    IN  /\ event.allDay <=> ~HasDateTime(input.start)
        /\ event.allDay =>
             /\ event.start.type = "PlainDate"
             /\ event.end.type = "PlainDate"
        /\ ~event.allDay =>
             /\ event.start.type = DateTimeKind(input.start)
             /\ event.end.type = DateTimeKind(input.end)
        /\ (event.start.type = "PlainDate") <=> (event.end.type = "PlainDate")

C8_Witness ==
  /\ ParsedEvent
  /\ Returned(output)
  /\ ~output.value.allDay
  /\ output.value.start.type = "ZonedDateTime"
  /\ output.value.end.type = "Instant"

=============================================================================
